---- MODULE Spec2Model ----
(***************************************************************************)
(* Model of the per-client job pool of rcmd (rcmd_lib/src/job_pool.rs),    *)
(* the process manager and line-channel helpers (rcmd_lib/src/util.rs) and *)
(* the job data types (rcmd_lib/src/job.rs), and of the server's request   *)
(* guards and handlers (rcmd_server/src/auth.rs, main.rs).                 *)
(*                                                                         *)
(* Tasks of the model:                                                     *)
(*   - callers: tasks that invoke submit / list / status / output / delete *)
(*     on one JobPool; a call is split at the points where it touches a    *)
(*     channel, the clock or the map lock;                                 *)
(*   - one manager task per spawned child (manage_process);                *)
(*   - two stream reader tasks per spawned child (read_to_end);            *)
(*   - the child process itself (environment).                             *)
(*                                                                         *)
(* Option<T> is a sequence of length 0 (None) or 1 (Some).                 *)
(***************************************************************************)
EXTENDS Integers, Sequences, FiniteSets, TLC

\* ------------------------------------------------------------------ bounds
\* number of submit calls explored (next_job_id is a u64; its wrap-around
\* after 2^64 submits is outside what the model explores)
MaxJobs == 2
\* lines a child writes, to stdout and stderr together
MaxLines == 1

\* pairs buffered in a channel when a drain of it is checked by itself
MaxQueue == 3
\* the clock readings of such a check are 0 .. MaxStamp
MaxStamp == 3

Callers == {"c1", "c2"}
Streams == {"stdout", "stderr"}
JobIds == 0 .. (MaxJobs - 1)
ExitCodes == {0, 1}
JobSpecs ==
    { [command |-> "echo", arguments |-> <<"hi">>],
      [command |-> "abcdfg", arguments |-> <<>>] }

None == <<>>
Some(x) == <<x>>

\* --------------------------------------------------------------- variables
VARIABLES
    next_job_id,   \* JobPool.next_job_id
    jobs,          \* JobPool.jobs: the map id -> Job
    lock,          \* holder of the jobs mutex: a caller, or "free"
    child,         \* per id: the OS process
    mpc,           \* per id: position of the manager task
    rpc,           \* per id and stream: position of the reader task
    chan,          \* per id and stream: the unbounded (line, Instant) channel
    exit_chan,     \* per id: the oneshot exit channel (Option of the value)
    kill_sent,     \* per id: a () is waiting in the oneshot kill channel
    pc,            \* per caller: position inside its current call
    call,          \* per caller: the current call and its locals
    ret,           \* the call that returned in the last step, if any
    emitted,       \* history, per id and stream: lines the reader sent
    expected,      \* history: id -> spec passed to submit, for the ids that
                   \* a submit returned and no delete has removed
    deleted,       \* history: ids that a delete removed
    pools,         \* server: the registry JobPools, principal name -> pool
    pool,          \* server: per pool object, its next_job_id and jobs
    req,           \* server: per request in progress, its position and locals
    resp,          \* server: the request answered in the last step, if any
    owned          \* history, per principal: id -> spec of the jobs its
                   \* requests submitted and none of them deleted

vars == << next_job_id, jobs, lock, child, mpc, rpc, chan, exit_chan, kill_sent,
           pc, call, ret, emitted, expected, deleted,
           pools, pool, req, resp, owned >>

poolVars == << next_job_id, jobs, lock >>
procVars == << child, mpc, rpc, chan, exit_chan, kill_sent, emitted >>
callVars == << pc, call >>
histVars == << expected, deleted >>
serverVars == << pools, pool, req, resp, owned >>

\* ------------------------------------------------------------- data types
\* JobState (job_pool.rs); Running's channel ends are the per-id variables
Running == [tag |-> "Running", exit_code |-> 0, msg |-> ""]
Completed(code) == [tag |-> "Completed", exit_code |-> code, msg |-> ""]
Terminated == [tag |-> "Terminated", exit_code |-> 0, msg |-> ""]
Error(m) == [tag |-> "Error", exit_code |-> 0, msg |-> m]

IsTerminal(st) == st.tag # "Running"

\* JobOutput::new
NewOutput == [stdout_lines |-> <<>>, stderr_lines |-> <<>>]

\* JobOutput::append with the bug of replacing instead of appending
AppendReplacing(output, stdout_lines, stderr_lines) ==
    [stdout_lines |-> stdout_lines, stderr_lines |-> stderr_lines]

\* JobOutput::append with the bug of taking the two arguments the other
\* way round
AppendSwapped(output, stdout_lines, stderr_lines) ==
    [stdout_lines |-> output.stdout_lines \o stderr_lines,
     stderr_lines |-> output.stderr_lines \o stdout_lines]

\* JobOutput::append
OutputAppend(output, stdout_lines, stderr_lines) ==
    [stdout_lines |-> output.stdout_lines \o stdout_lines,
     stderr_lines |-> output.stderr_lines \o stderr_lines]

\* JobStatus (job.rs)
StatusRunning == [variant |-> "Running", exit_code |-> 0, msg |-> ""]
StatusCompleted(code) == [variant |-> "Completed", exit_code |-> code, msg |-> ""]
StatusTerminated == [variant |-> "Terminated", exit_code |-> 0, msg |-> ""]
StatusError(m) == [variant |-> "Error", exit_code |-> 0, msg |-> m]

\* impl From<&JobState> for JobStatus
JobStatusFrom(state) ==
    CASE state.tag = "Running" -> StatusRunning
      [] state.tag = "Completed" -> StatusCompleted(state.exit_code)
      [] state.tag = "Terminated" -> StatusTerminated
      [] state.tag = "Error" -> StatusError(state.msg)

\* io::Result<ExitStatus>: ok = FALSE is Err(io_err), err its {:?} text;
\* code is ExitStatus::code()
ExitOk(code) == [ok |-> TRUE, code |-> code, err |-> ""]
ExitErr == [ok |-> FALSE, code |-> None, err |-> "Kind(Other)"]

\* the text of the k-th line a child writes to a stream
LineText(s, k) == s \o ToString(k) \o "\n"

Lines(items) == [i \in 1 .. Len(items) |-> items[i].line]

IsPrefix(a, b) == Len(a) <= Len(b) /\ SubSeq(b, 1, Len(a)) = a

SpawnErrorMsg == "No such file or directory (os error 2)"
WaitErrorMsg(err) == "unexpected io error when waiting for job process " \o err
DeleteErrorPrefix == "deletion resulted in error state: "

\* HashMap::insert
MapInsert(m, k, v) == [x \in DOMAIN m \cup {k} |-> IF x = k THEN v ELSE m[x]]

\* HashMap::remove with the bug of only looking the entry up (HashMap::get)
MapGet(m, k) == m

\* HashMap::remove
MapRemove(m, k) == [x \in DOMAIN m \ {k} |-> m[x]]

EmptyMap == [x \in {} |-> 0]

\* (history) what held when the call entered the pool; while a call holds
\* the lock no other call returns, so all but <published> is the same when
\* the call leaves
NoObs == [job |-> None, present |-> FALSE, was_returned |-> FALSE,
          was_deleted |-> FALSE, was_running |-> FALSE, published |-> FALSE]

Observe(id, job, published) ==
    [job |-> job,
     present |-> job # None,
     was_returned |-> id \in DOMAIN expected \cup deleted,
     was_deleted |-> id \in deleted,
     was_running |-> job # None /\ job[1].state.tag = "Running",
     published |-> published]

\* the manager has sent the exit result
Published(id) == mpc[id] = "done"

NoCall == [op |-> "none", id |-> 0, spec |-> None, job |-> None,
           exit |-> None, until |-> 0,
           stdout_lines |-> <<>>, stderr_lines |-> <<>>, published |-> FALSE]
NoRet == [caller |-> "none", op |-> "none", id |-> 0, val |-> None,
          job |-> None, obs |-> NoObs]

Returned(c, op, id, val, job, obs) ==
    [caller |-> c, op |-> op, id |-> id, val |-> val, job |-> job, obs |-> obs]

\* a caller is inside the two receive_lines_until loops of update_job_state
Draining == \E c \in Callers : pc[c] \in {"recv_stdout", "recv_stderr"}

\* Readings Instant::now() can give a reader. The only use of a reading is
\* the comparison timestamp > until, so readings are counted from <until>:
\* 0 is a reading not after it, 1 a reading after it. While no loop is in
\* progress every reading is 0, because the next <until> is read after it.
\* The clock is monotonic: a reader's reading is not before its last one.
ClockReadings(q) ==
    IF Draining
    THEN {t \in {0, 1} : q = <<>> \/ t >= q[Len(q)].ts}
    ELSE {0}

\* the timestamps of a channel, counted from the next <until>
Rebased(q) == [i \in 1 .. Len(q) |-> [line |-> q[i].line, ts |-> 0]]

\* ------------------------------------------- server state (rcmd_server)
\* the Common Names of the client certificates
Principals == {"alice", "bob"}
\* the requests the server works on at the same time
Requests == {"r1", "r2"}

\* JobPool::new
NewPool == [next_job_id |-> 0, jobs |-> EmptyMap]

\* a request before its guards ran; job_pool is the Arc<JobPool> of
\* ClientJobPool, the position of the pool object in <pool> (0: none yet)
NoReq == [pc |-> "idle", name |-> "", has |-> FALSE, job_pool |-> 0]
NoResp == [request |-> "none", name |-> "", op |-> "none", id |-> 0,
           val |-> None, job_pool |-> 0]

\* rocket::custom(config).manage(JobPools::new())
ServerInit ==
    /\ pools = EmptyMap
    /\ pool = <<>>
    /\ req = [r \in Requests |-> NoReq]
    /\ resp = NoResp
    /\ owned = [n \in Principals |-> EmptyMap]

\* ------------------------------------------------------------------- Init
Init ==
    /\ ServerInit
    /\ next_job_id = 0
    /\ jobs = EmptyMap
    /\ lock = "free"
    /\ child = [j \in JobIds |-> "none"]
    /\ mpc = [j \in JobIds |-> "none"]
    /\ rpc = [j \in JobIds |-> [s \in Streams |-> "none"]]
    /\ chan = [j \in JobIds |-> [s \in Streams |-> <<>>]]
    /\ exit_chan = [j \in JobIds |-> None]
    /\ kill_sent = [j \in JobIds |-> FALSE]
    /\ pc = [c \in Callers |-> "idle"]
    /\ call = [c \in Callers |-> NoCall]
    /\ ret = NoRet
    /\ emitted = [j \in JobIds |-> [s \in Streams |-> <<>>]]
    /\ expected = EmptyMap
    /\ deleted = {}

\* ------------------------------------------------- the child (environment)
\* the child ends by itself: with an exit code, or by a signal that does not
\* come from the pool; which one is drawn when the manager waits for it
ChildExit(j) ==
    /\ UNCHANGED serverVars
    /\ child[j] = "alive"
    /\ child' = [child EXCEPT ![j] = "exited"]
    /\ UNCHANGED << poolVars, mpc, rpc, chan, exit_chan, kill_sent, emitted,
                    callVars, histVars >>
    /\ ret' = NoRet

\* lines the child has written so far (each is read by a reader at once)
Written(j) == Len(emitted[j]["stdout"]) + Len(emitted[j]["stderr"])

\* ------------------------------------------------ stream reader (util.rs)
\* read_to_end: read_line gave a line; it is sent with a fresh Instant::now()
ReaderLine(j, s) ==
    /\ UNCHANGED serverVars
    /\ rpc[j][s] = "reading"
    /\ Written(j) < MaxLines
    /\ \E t \in ClockReadings(chan[j][s]) :
           LET line == LineText(s, Len(emitted[j][s]) + 1) IN
           /\ chan' = [chan EXCEPT ![j][s] = Append(@, [line |-> line, ts |-> t])]
           /\ emitted' = [emitted EXCEPT ![j][s] = Append(@, line)]
    /\ UNCHANGED << poolVars, child, mpc, rpc, exit_chan, kill_sent, callVars,
                    histVars >>
    /\ ret' = NoRet

\* read_to_end: read_line gave Ok(0), end of file: the loop breaks, the task
\* ends and its sender is dropped
ReaderEof(j, s) ==
    /\ UNCHANGED serverVars
    /\ rpc[j][s] = "reading"
    /\ rpc' = [rpc EXCEPT ![j][s] = "done"]
    /\ UNCHANGED << poolVars, child, mpc, chan, exit_chan, kill_sent, emitted,
                    callVars, histVars >>
    /\ ret' = NoRet

\* ------------------------------------------- manager: manage_process (util.rs)
\* select!: process.wait() completed
ManagerProcessExited(j) ==
    /\ UNCHANGED serverVars
    /\ mpc[j] = "select"
    /\ child[j] # "alive"
    /\ mpc' = [mpc EXCEPT ![j] = "joining"]
    /\ UNCHANGED << poolVars, child, rpc, chan, exit_chan, kill_sent, emitted,
                    callVars, histVars >>
    /\ ret' = NoRet

\* process.kill().await: Ok(()) once a living child was ended by SIGKILL (or
\* had ended before), Err when the signal could not be sent
KillOutcomes(p) == IF p = "alive" THEN {"killed", p} ELSE {p}

\* the kill branch with the bug of returning when process.kill() fails
AfterKillReturning(p) == IF p = "alive" THEN "done" ELSE "joining"

\* the kill branch: an error of process.kill() is logged and the task goes
\* on to the joins
AfterKill(p) == "joining"

\* select!: the kill signal arrived; the child is killed, errors are logged
ManagerKillReceived(j) ==
    /\ UNCHANGED serverVars
    /\ mpc[j] = "select"
    /\ kill_sent[j]
    /\ \E p \in KillOutcomes(child[j]) :
           /\ child' = [child EXCEPT ![j] = p]
           /\ mpc' = [mpc EXCEPT ![j] = AfterKill(p)]
    /\ kill_sent' = [kill_sent EXCEPT ![j] = FALSE]
    /\ UNCHANGED << poolVars, rpc, chan, exit_chan, emitted, callVars,
                    histVars >>
    /\ ret' = NoRet

\* the joins with the bug of awaiting only the stdout reader
StdoutJoined(j) == rpc[j]["stdout"] = "done"

\* the joins with the bug of not awaiting the reader tasks
StreamsNotAwaited(j) == TRUE

\* stdout_handle.await and stderr_handle.await both completed
StreamsJoined(j) == \A s \in Streams : rpc[j][s] = "done"

\* process.wait().await with the bug of not waiting (try_wait)
WaitNotAwaited(j) == TRUE

\* process.wait().await completes once the child has ended
WaitCompleted(j) == child[j] # "alive"

\* what process.wait().await gives for an ended child: ExitStatus::code() is
\* None for a child ended by a signal
WaitResults(p) ==
    {ExitOk(None), ExitErr}
    \cup (IF p = "exited" THEN {ExitOk(Some(x)) : x \in ExitCodes} ELSE {})

\* after the select!: both reader tasks are joined, then the child is waited
\* for, then exit_channel.send(..) publishes the result and the task ends
ManagerSendExit(j) ==
    /\ UNCHANGED serverVars
    /\ mpc[j] = "joining"
    /\ StreamsJoined(j)
    /\ WaitCompleted(j)
    /\ \E res \in WaitResults(child[j]) :
           exit_chan' = [exit_chan EXCEPT ![j] = Some(res)]
    /\ mpc' = [mpc EXCEPT ![j] = "done"]
    /\ UNCHANGED << poolVars, child, rpc, chan, kill_sent, emitted,
                    callVars, histVars >>
    /\ ret' = NoRet

\* ------------------------------------------------ the pool (job_pool.rs)
\* fetch_add with the bug of a plain load (the counter is not advanced)
FetchAddLoad(n) == n

\* next_job_id.fetch_add(1, Relaxed): the new value of the counter (the call
\* returns the old one)
FetchAdd(n) == n + 1

\* process.id() of a spawned child
PidOf(id) == Some(1000 + id)

\* submit with the bug of storing Running whatever Command::spawn gave
NewJobRunning(id, spec, spawned) ==
    [id |-> id,
     pid |-> IF spawned THEN PidOf(id) ELSE None,
     spec |-> spec,
     state |-> Running,
     output |-> NewOutput]

\* submit: the Job built from the result of Command::spawn
NewJob(id, spec, spawned) ==
    [id |-> id,
     pid |-> IF spawned THEN PidOf(id) ELSE None,
     spec |-> spec,
     state |-> IF spawned THEN Running ELSE Error(SpawnErrorMsg),
     output |-> NewOutput]

\* Command::spawn succeeds or fails (the environment decides); there is no
\* program "abcdfg". The model follows the tasks of one child: once a child
\* was spawned every further spawn fails (the tasks of two children share
\* nothing but the clock).
SpawnResults(command) ==
    IF command # "abcdfg" /\ \A j \in JobIds : mpc[j] = "none"
    THEN BOOLEAN ELSE {FALSE}

\* submit, up to the lock: take the id, spawn the child; on success create
\* the channels and launch the manager, which launches the two readers
SubmitSpawn(c, spec) ==
    /\ UNCHANGED serverVars
    /\ pc[c] = "idle"
    /\ next_job_id < MaxJobs
    /\ LET id == next_job_id IN
       /\ next_job_id' = FetchAdd(next_job_id)
       /\ \E spawned \in SpawnResults(spec.command) :
            /\ call' = [call EXCEPT ![c] =
                   [NoCall EXCEPT !.op = "submit", !.id = id, !.spec = Some(spec),
                                  !.job = Some(NewJob(id, spec, spawned))]]
            /\ IF spawned /\ id \in JobIds
               THEN /\ child' = [child EXCEPT ![id] = "alive"]
                    /\ mpc' = [mpc EXCEPT ![id] = "select"]
                    /\ rpc' = [rpc EXCEPT ![id] = [s \in Streams |-> "reading"]]
               ELSE UNCHANGED << child, mpc, rpc >>
       /\ pc' = [pc EXCEPT ![c] = "insert"]
    /\ ret' = NoRet
    /\ UNCHANGED << jobs, lock, chan, exit_chan, kill_sent, emitted,
                    histVars >>

\* submit: self.jobs.lock().await.insert(id, job); id
SubmitInsert(c) ==
    /\ UNCHANGED serverVars
    /\ pc[c] = "insert"
    /\ lock = "free"
    /\ LET job == call[c].job[1] IN
       /\ jobs' = MapInsert(jobs, job.id, job)
       /\ ret' = Returned(c, "submit", job.id, job.id, Some(job),
                           Observe(job.id, None, FALSE))
       /\ expected' = [x \in DOMAIN expected \cup {job.id} |->
                           IF x = job.id THEN call[c].spec[1] ELSE expected[x]]
    /\ pc' = [pc EXCEPT ![c] = "idle"]
    /\ call' = [call EXCEPT ![c] = NoCall]
    /\ UNCHANGED << next_job_id, lock, procVars, deleted >>

\* list with the bug of leaving out the jobs that are not Running
ListRunning(m) ==
    [id \in {x \in DOMAIN m : m[x].state.tag = "Running"} |-> m[id].spec]

\* list: the spec of every job of the map
ListResult(m) == [id \in DOMAIN m |-> m[id].spec]

\* list with the bug of draining the map (jobs.drain() for jobs.iter())
JobsDrained(m) == EmptyMap

\* list: jobs.iter() borrows the map, which stays as it is
JobsIterated(m) == m

List(c) ==
    /\ UNCHANGED serverVars
    /\ pc[c] = "idle"
    /\ lock = "free"
    /\ ret' = Returned(c, "list", 0, ListResult(jobs), None, NoObs)
    /\ jobs' = JobsIterated(jobs)
    /\ UNCHANGED << next_job_id, lock, procVars, pc, call, histVars >>

\* finish_job with the bug of taking a missing exit code as 0
\* (code().unwrap_or(0))
FinishStateCodeOrZero(exit) ==
    IF exit.ok
    THEN Completed(IF exit.code # None THEN exit.code[1] ELSE 0)
    ELSE Error(WaitErrorMsg(exit.err))

\* finish_job: the terminal state for an exit result
FinishState(exit) ==
    IF exit.ok
    THEN IF exit.code # None THEN Completed(exit.code[1]) ELSE Terminated
    ELSE Error(WaitErrorMsg(exit.err))

\* delete with the bug of only logging the error state
DeleteResultLogged(state) == None

\* delete: the value returned after update_job_state(job, true)
DeleteResult(state) ==
    IF state.tag = "Error" THEN Some(DeleteErrorPrefix \o state.msg) ELSE None

\* update_job_state on a job that is not Running (x => x): with the bug of
\* probing the exit channel again, which is closed by then
AdvanceTerminalProbing(job) ==
    [job EXCEPT !.state = Error("exit channel closed")]

\* update_job_state on a job that is not Running: x => x
AdvanceTerminal(job) == job

\* delete with the bug of testing for the Error state outside the block for
\* Running jobs
DeleteValueOfState(was_running, state) == DeleteResult(state)

\* delete: the state is looked at only for a job that was Running when the
\* call removed it; every other job is dropped and None is returned
DeleteValue(was_running, state) ==
    IF was_running THEN DeleteResult(state) ELSE None

\* the reinsert with the bug of keeping only the jobs that still run
ReinsertedIfRunning(m, id, job) ==
    IF job.state.tag = "Running" THEN MapInsert(m, id, job) ELSE m

\* status / output: jobs.insert(id, job) of the advanced job, under the id
\* the call was given
Reinserted(m, id, job) == MapInsert(m, id, job)

\* status / output / delete leave the pool: the job is reinserted (status,
\* output) or dropped (delete), the lock is released, the value is returned
Leave(c, op, id, job, obs) ==
    LET status == JobStatusFrom(job.state) IN
    /\ pc' = [pc EXCEPT ![c] = "idle"]
    /\ call' = [call EXCEPT ![c] = NoCall]
    /\ lock' = "free"
    /\ CASE op = "status" ->
              /\ jobs' = Reinserted(jobs, id, job)
              /\ ret' = Returned(c, op, id, Some(status), Some(job), obs)
              /\ UNCHANGED histVars
         [] op = "output" ->
              /\ jobs' = Reinserted(jobs, id, job)
              /\ ret' = Returned(c, op, id, Some(job.output), Some(job), obs)
              /\ UNCHANGED histVars
         [] op = "delete" ->
              /\ jobs' = MapRemove(jobs, id)
              /\ ret' = Returned(c, op, id,
                                 DeleteValue(obs.was_running, job.state),
                                 Some(job), obs)
              /\ deleted' = deleted \cup {id}
              /\ expected' = [x \in DOMAIN expected \ {id} |-> expected[x]]
    /\ UNCHANGED next_job_id

\* the answer for a missing id with the bug of reporting an Error status
NotFoundAsError(op) == Some(StatusError("job not found"))

\* jobs.remove(&id)? on a missing id: the call returns None
NotFound(op) == None

\* status / output / delete on an id that is not in the map: jobs.remove(&id)?
Absent(c, op, id) ==
    /\ ret' = Returned(c, op, id, NotFound(op), None,
                        Observe(id, None, Published(id)))
    /\ UNCHANGED << poolVars, procVars, pc, call, histVars >>

\* the guard with the bug of being dropped before update_job_state runs
GuardDropped(c) == "free"

\* let mut jobs = self.jobs.lock().await: the guard lives until the call
\* returns, the caller holds the lock while it advances the job
GuardHeld(c) == c

\* the probe of the exit channel with the bug of never seeing the result
ExitNeverReady(id) == FALSE

\* exit_rx.try_recv() gives Ok, exit_rx.await completes: the exit result is
\* in the channel
ExitReady(id) == exit_chan[id] # None

\* status / output: lock, remove, update_job_state(job, false) up to the
\* first channel operation
Read(c, op, id) ==
    /\ UNCHANGED serverVars
    /\ pc[c] = "idle"
    /\ lock = "free"
    /\ IF id \notin DOMAIN jobs
       THEN Absent(c, op, id)
       ELSE LET job == jobs[id]
                k == [NoCall EXCEPT !.op = op, !.id = id, !.job = Some(job),
                                    !.published = Published(id)]
            IN
            IF job.state.tag # "Running"
            THEN /\ Leave(c, op, id, AdvanceTerminal(job),
                          Observe(id, Some(job), Published(id)))
                 /\ UNCHANGED << procVars >>
            ELSE /\ jobs' = MapRemove(jobs, id)
                 /\ lock' = GuardHeld(c)
                 /\ IF ExitReady(id)
                    THEN /\ call' = [call EXCEPT ![c] =
                                [k EXCEPT !.exit = exit_chan[id]]]
                         /\ exit_chan' = [exit_chan EXCEPT ![id] = None]
                         /\ pc' = [pc EXCEPT ![c] = "finish_stdout"]
                    ELSE /\ call' = [call EXCEPT ![c] = [k EXCEPT !.until = 0]]
                         /\ pc' = [pc EXCEPT ![c] = "recv_stdout"]
                         /\ exit_chan' = exit_chan
                 /\ ret' = NoRet
                 /\ UNCHANGED << next_job_id, child, mpc, rpc, chan, kill_sent,
                                 emitted, histVars >>

StreamOf(p) == IF p \in {"recv_stdout", "finish_stdout"} THEN "stdout" ELSE "stderr"

\* the comparison with the bug of never ending the loop on a timestamp
StopNever(ts, until) == FALSE

\* the comparison with the bug of stopping at a timestamp equal to <until>
StopAtOrAfter(ts, until) == ts >= until

\* receive_lines_until: a received line ends the loop when its timestamp is
\* after <until>
StopAfter(ts, until) == ts > until

\* receive_lines_until as a whole, on a channel no sender adds to meanwhile:
\* the lines returned and what stays in the channel. try_recv() takes the
\* first pair or gives Err(Empty) at once; the line is pushed before the
\* timestamp is compared.
RECURSIVE receive_lines_until(_, _)
receive_lines_until(lines_receiver, until) ==
    IF lines_receiver = <<>>
    THEN [lines |-> <<>>, rest |-> <<>>]
    ELSE LET first == Head(lines_receiver) IN
         IF StopAfter(first.ts, until)
         THEN [lines |-> <<first.line>>, rest |-> Tail(lines_receiver)]
         ELSE LET more == receive_lines_until(Tail(lines_receiver), until) IN
              [lines |-> <<first.line>> \o more.lines, rest |-> more.rest]

\* the lines collected by the two loops are appended to the job's output,
\* and the job gets its state
Collected(k, state) ==
    [k.job[1] EXCEPT
        !.output = OutputAppend(@, k.stdout_lines, k.stderr_lines),
        !.state = state]

ObsOf(k) == Observe(k.id, k.job, k.published)

\* receive_lines_until: one turn of the loop around try_recv(); after the
\* stderr loop the lines are appended and the job stays Running
RecvUntil(c) ==
    /\ UNCHANGED serverVars
    /\ pc[c] \in {"recv_stdout", "recv_stderr"}
    /\ LET s == StreamOf(pc[c])
           k == call[c]
           q == chan[k.id][s]
           got == IF s = "stdout"
                  THEN [k EXCEPT !.stdout_lines = Append(@, Head(q).line)]
                  ELSE [k EXCEPT !.stderr_lines = Append(@, Head(q).line)]
           over == q = <<>> \/ StopAfter(Head(q).ts, k.until)
           k2 == IF q = <<>> THEN k ELSE got
           rest == IF q = <<>> THEN q ELSE Tail(q)
       IN
       /\ IF ~over
          THEN /\ call' = [call EXCEPT ![c] = k2]
               /\ chan' = [chan EXCEPT ![k.id][s] = rest]
               /\ ret' = NoRet
               /\ UNCHANGED << poolVars, pc, histVars >>
          ELSE IF s = "stdout"
          THEN /\ call' = [call EXCEPT ![c] = k2]
               /\ chan' = [chan EXCEPT ![k.id][s] = rest]
               /\ pc' = [pc EXCEPT ![c] = "recv_stderr"]
               /\ ret' = NoRet
               /\ UNCHANGED << poolVars, histVars >>
          ELSE /\ Leave(c, k.op, k.id, Collected(k2, Running), ObsOf(k))
               /\ chan' = [j \in JobIds |-> [x \in Streams |->
                              Rebased(IF j = k.id /\ x = s THEN rest
                                      ELSE chan[j][x])]]
    /\ UNCHANGED << child, mpc, rpc, exit_chan, kill_sent, emitted >>

\* receive_all_lines: recv().await gives None once the channel is empty and
\* every sender is dropped
ChannelClosed(id, s) == rpc[id][s] = "done"

\* receive_all_lines with the bug of returning before anything is received
ReceiveNoLines(q) == <<>>

\* receive_all_lines: every line of the channel, in arrival order
ReceiveAllLines(q) == Lines(q)

\* finish_job: receive_all_lines on one stream; after the second stream the
\* output is appended and the exit result gives the terminal state
FinishRecv(c) ==
    /\ UNCHANGED serverVars
    /\ pc[c] \in {"finish_stdout", "finish_stderr"}
    /\ LET s == StreamOf(pc[c])
           k == call[c]
           q == chan[k.id][s]
           k2 == IF s = "stdout"
                 THEN [k EXCEPT !.stdout_lines = @ \o ReceiveAllLines(q)]
                 ELSE [k EXCEPT !.stderr_lines = @ \o ReceiveAllLines(q)]
       IN
       /\ ChannelClosed(k.id, s)
       /\ chan' = [chan EXCEPT ![k.id][s] = <<>>]
       /\ IF s = "stdout"
          THEN /\ call' = [call EXCEPT ![c] = k2]
               /\ pc' = [pc EXCEPT ![c] = "finish_stderr"]
               /\ ret' = NoRet
               /\ UNCHANGED << poolVars, histVars >>
          ELSE Leave(c, k.op, k.id, Collected(k2, FinishState(k.exit[1])), ObsOf(k))
    /\ UNCHANGED << child, mpc, rpc, exit_chan, kill_sent, emitted >>

\* the kill path with the bug of awaiting exit_rx before kill_tx.send(()):
\* the signal goes out only once the exit value is there
KillDeliveredAfterExit(id) == mpc[id] = "select" /\ ExitReady(id)

\* kill_tx.send(()) with the bug of dropping the sender without sending
KillNeverDelivered(id) == FALSE

\* kill_tx.send(()) succeeds while the manager still holds the receiver,
\* which it drops when its select! ends
KillDelivered(id) == mpc[id] = "select"

\* the kill path with the bug of giving up when kill_tx.send(()) fails
AfterKillSendFailing(delivered) == IF delivered THEN "await_exit" ELSE "failed"

\* update_job_state(job, true): a failed kill_tx.send(()) is logged, then
\* exit_rx is awaited in either case
AfterKillSend(delivered) == "await_exit"

\* delete: lock, remove; a Running job gets the kill signal
Delete(c, id) ==
    /\ UNCHANGED serverVars
    /\ pc[c] = "idle"
    /\ lock = "free"
    /\ IF id \notin DOMAIN jobs
       THEN Absent(c, "delete", id)
       ELSE LET job == jobs[id] IN
            IF job.state.tag # "Running"
            THEN /\ Leave(c, "delete", id, job,
                          Observe(id, Some(job), Published(id)))
                 /\ UNCHANGED << procVars >>
            ELSE /\ jobs' = MapRemove(jobs, id)
                 /\ lock' = GuardHeld(c)
                 /\ kill_sent' = [kill_sent EXCEPT ![id] = KillDelivered(id)]
                 /\ call' = [call EXCEPT ![c] =
                        [NoCall EXCEPT !.op = "delete", !.id = id,
                                       !.job = Some(job),
                                       !.published = Published(id)]]
                 /\ pc' = [pc EXCEPT ![c] = AfterKillSend(KillDelivered(id))]
                 /\ ret' = NoRet
                 /\ UNCHANGED << next_job_id, child, mpc, rpc, chan, exit_chan,
                                 emitted, histVars >>

\* update_job_state(job, true): exit_rx.await gave Ok(exit_result)
AwaitExit(c) ==
    /\ UNCHANGED serverVars
    /\ pc[c] = "await_exit"
    /\ ExitReady(call[c].id)
    /\ call' = [call EXCEPT ![c].exit = exit_chan[call[c].id]]
    /\ exit_chan' = [exit_chan EXCEPT ![call[c].id] = None]
    /\ pc' = [pc EXCEPT ![c] = "finish_stdout"]
    /\ ret' = NoRet
    /\ UNCHANGED << poolVars, child, mpc, rpc, chan, kill_sent, emitted,
                    histVars >>

\* ------------------------------------------------------------------- Next
Next ==
    \/ \E c \in Callers, spec \in JobSpecs : SubmitSpawn(c, spec)
    \/ \E c \in Callers : SubmitInsert(c)
    \/ \E c \in Callers : List(c)
    \/ \E c \in Callers, op \in {"status", "output"}, id \in JobIds : Read(c, op, id)
    \/ \E c \in Callers : RecvUntil(c)
    \/ \E c \in Callers : FinishRecv(c)
    \/ \E c \in Callers, id \in JobIds : Delete(c, id)
    \/ \E c \in Callers : AwaitExit(c)
    \/ \E j \in JobIds : ChildExit(j)
    \/ \E j \in JobIds, s \in Streams : ReaderLine(j, s)
    \/ \E j \in JobIds, s \in Streams : ReaderEof(j, s)
    \/ \E j \in JobIds : ManagerProcessExited(j)
    \/ \E j \in JobIds : ManagerKillReceived(j)
    \/ \E j \in JobIds : ManagerSendExit(j)

Spec == Init /\ [][Next]_vars

\* ---------------------------------------------------------------- claims
\* a JobStatus reports a JobState: same variant, same payload
StatusMatches(status, state) ==
    /\ status.variant = state.tag
    /\ state.tag = "Completed" => status.exit_code = state.exit_code
    /\ state.tag = "Error" => status.msg = state.msg

\* the job of an id while a status / output / delete call holds it outside
\* the map
Held(id) ==
    {call[c].job[1] : c \in {x \in Callers :
        /\ call[x].op \in {"status", "output", "delete"}
        /\ call[x].id = id
        /\ call[x].job # None}}

\* the pool has the job of this id: in the map, or held by a call
Known(id) == id \in DOMAIN jobs \/ Held(id) # {}

JobOf(id) == IF id \in DOMAIN jobs THEN jobs[id] ELSE CHOOSE j \in Held(id) : TRUE

\* a job that had a child process
Spawned(job) == job.pid # None

\* C1: a job that is in a terminal state keeps exactly that state (variant
\* and payload) for as long as the pool has it, it leaves the pool only by a
\* delete, and every status call on it returns that state; so once status
\* has returned a terminal variant, every later status of the job returns
\* the same one.
C1_Step ==
    \A id \in JobIds :
        (Known(id) /\ IsTerminal(JobOf(id).state)) =>
            /\ \/ Known(id)' /\ JobOf(id)'.state = JobOf(id).state
               \/ ~Known(id)' /\ id \in deleted'
            /\ (ret'.op = "status" /\ ret'.id = id) =>
                   /\ ret'.val # None
                   /\ StatusMatches(ret'.val[1], JobOf(id).state)
                   /\ StatusMatches(ret'.val[1], JobOf(id)'.state)

C1_TerminalStatusIsStable == [][C1_Step]_vars

\* a status call returned the terminal state of a job that had a child and
\* was terminal already when the call entered the pool
C1_Witness ==
    /\ ret.op = "status"
    /\ ret.obs.present /\ ~ret.obs.was_running
    /\ Spawned(ret.obs.job[1])
    /\ ret.val = Some(StatusCompleted(1))

\* C2: once a delete has removed a job, the id is in no map entry and held by
\* no call, status / output / delete of it return None, and list does not
\* contain it.
C2_DeletedStaysAbsent ==
    /\ \A id \in deleted : ~Known(id)
    /\ (ret.op \in {"status", "output", "delete"} /\ ret.obs.was_deleted) =>
           ret.val = None
    /\ ret.op = "list" => DOMAIN ret.val \cap deleted = {}

\* a status call on a deleted id returned None while the pool has another job
C2_Witness ==
    /\ ret.op = "status"
    /\ ret.obs.was_deleted
    /\ ret.val = None
    /\ jobs # EmptyMap

\* C3: when delete returns for a job that was Running when it was called,
\* the child process has ended and the manager task has published the exit
\* result.
C3_DeleteWaitsForExit ==
    (ret.op = "delete" /\ ret.obs.was_running) =>
        /\ child[ret.id] \in {"exited", "killed"}
        /\ Published(ret.id)

\* a delete returned that was called before the exit result was published
\* and whose kill signal ended the child
C3_Witness ==
    /\ ret.op = "delete"
    /\ ret.obs.was_running
    /\ ~ret.obs.published
    /\ child[ret.id] = "killed"

\* C4: submit never returns an id that an earlier submit returned, whether
\* the earlier job is still in the pool or was deleted, and two submits in
\* progress hold different ids.
C4_IdsAreUnique ==
    /\ ret.op = "submit" => ~ret.obs.was_returned
    /\ \A c \in Callers : call[c].op = "submit" =>
           /\ call[c].id \notin DOMAIN expected \cup deleted
           /\ \A d \in Callers \ {c} :
                  call[d].op = "submit" => call[d].id # call[c].id

\* a submit returned after an earlier job was deleted
C4_Witness ==
    /\ ret.op = "submit"
    /\ deleted # {}

\* C5: the lines of a job's output only grow at the end: in every step the
\* stdout and stderr lines the pool has for a job are a prefix of the lines
\* it has afterwards, and an output call returns an extension of the lines
\* the job had before.
C5_Step ==
    \A id \in JobIds :
        Known(id) =>
            /\ Known(id)' =>
                   /\ IsPrefix(JobOf(id).output.stdout_lines,
                               JobOf(id)'.output.stdout_lines)
                   /\ IsPrefix(JobOf(id).output.stderr_lines,
                               JobOf(id)'.output.stderr_lines)
            /\ (ret'.op = "output" /\ ret'.id = id) =>
                   /\ ret'.val # None
                   /\ ret'.val[1] = JobOf(id)'.output
                   /\ IsPrefix(JobOf(id).output.stdout_lines,
                               ret'.val[1].stdout_lines)
                   /\ IsPrefix(JobOf(id).output.stderr_lines,
                               ret'.val[1].stderr_lines)

C5_OutputOnlyGrows == [][C5_Step]_vars

\* an output call returned lines that the job had before the call, after
\* the child wrote them and an earlier call collected them
C5_Witness ==
    /\ ret.op = "output"
    /\ ret.obs.was_running
    /\ ret.obs.job[1].output.stdout_lines # <<>>
    /\ ret.val = Some(ret.job[1].output)
    /\ ret.val[1].stdout_lines = ret.obs.job[1].output.stdout_lines

\* what C6 asks of a job that had a child and is terminal
Complete(job) ==
    /\ job.output.stdout_lines = emitted[job.id]["stdout"]
    /\ job.output.stderr_lines = emitted[job.id]["stderr"]
    /\ \A s \in Streams : chan[job.id][s] = <<>> /\ ChannelClosed(job.id, s)

\* C6: a job that went from Running to a terminal state has in its output
\* every line the readers sent, in order, and both line channels are empty
\* and closed; this holds for the jobs of the map and for the job a delete
\* has just finished.
C6_TerminalOutputIsComplete ==
    /\ \A id \in DOMAIN jobs :
           (Spawned(jobs[id]) /\ IsTerminal(jobs[id].state)) => Complete(jobs[id])
    /\ (ret.op = "delete" /\ ret.obs.was_running) =>
           IsTerminal(ret.job[1].state) /\ Complete(ret.job[1])

\* a status call made a Running job terminal and the job has a line that an
\* earlier call collected
C6_Witness ==
    /\ ret.op = "status"
    /\ ret.obs.was_running
    /\ IsTerminal(ret.job[1].state)
    /\ ret.obs.job[1].output # NewOutput
    /\ ret.id \in DOMAIN jobs

\* C7: submit returns an id and inserts a job whatever the command; when
\* the spawn failed the job is in the Error state with the spawn error and
\* has no pid, and status of it returns Error (never Running) with no
\* further call needed.
C7_SpawnFailureIsErrorJob ==
    /\ ret.op = "submit" =>
           /\ ret.val = ret.id
           /\ ret.id \in DOMAIN jobs
           /\ mpc[ret.id] = "none" =>
                  /\ jobs[ret.id].pid = None
                  /\ jobs[ret.id].state = Error(SpawnErrorMsg)
    /\ \A id \in DOMAIN jobs : mpc[id] = "none" =>
           jobs[id].pid = None /\ jobs[id].state.tag = "Error"
    /\ (ret.op = "status" /\ ret.obs.present /\ mpc[ret.id] = "none") =>
           ret.val = Some(StatusError(SpawnErrorMsg))

\* status returned Error for a job whose spawn failed
C7_Witness ==
    /\ ret.op = "status"
    /\ ret.obs.present
    /\ mpc[ret.id] = "none"
    /\ ret.val # None
    /\ ret.val[1].variant = "Error"

\* C8: list returns exactly the ids that a submit returned and no delete
\* removed, each with the command and arguments passed to that submit.
C8_ListIsSubmittedNotDeleted ==
    ret.op = "list" => ret.val = expected

\* list returned a job whose spawn failed, after another job was deleted
C8_Witness ==
    /\ ret.op = "list"
    /\ deleted # {}
    /\ \E id \in DOMAIN ret.val : ret.val[id].command = "abcdfg"

\* C9: status of a job that had a child returns Running exactly when the
\* manager had not published the exit result when the call probed the exit
\* channel; a status or output call that probed after the publication
\* leaves the job terminal.
C9_RunningIffExitUnpublished ==
    /\ (ret.op = "status" /\ ret.obs.present /\ Spawned(ret.obs.job[1])) =>
           (ret.val = Some(StatusRunning) <=> ~ret.obs.published)
    /\ (ret.op \in {"status", "output"} /\ ret.obs.present
            /\ Spawned(ret.obs.job[1]) /\ ret.obs.published) =>
           /\ ret.id \in DOMAIN jobs
           /\ IsTerminal(jobs[ret.id].state)

\* the first status call after the publication returned a terminal variant
C9_Witness ==
    /\ ret.op = "status"
    /\ ret.obs.was_running
    /\ ret.obs.published
    /\ ret.val # None
    /\ ret.val[1].variant \in {"Completed", "Terminated", "Error"}

\* C10: delete of a job of the pool returns an error message exactly when
\* the job was Running and its advance with the kill signal ended in the
\* Error state (the message then carries the state's message); the job is
\* out of the map in either case.
C10_DeleteErrorOnlyFromKill ==
    (ret.op = "delete" /\ ret.obs.present) =>
        /\ ret.id \notin DOMAIN jobs
        /\ ret.val # None <=>
               (ret.obs.was_running /\ ret.job[1].state.tag = "Error")
        /\ ret.val # None =>
               ret.val = Some(DeleteErrorPrefix \o WaitErrorMsg(ExitErr.err))

\* a delete of a Running job returned an error message
C10_Witness ==
    /\ ret.op = "delete"
    /\ ret.obs.was_running
    /\ ret.val # None

\* ------------------------------------ server (rcmd_server: auth.rs, main.rs)
\* the variables of the pool tasks, which the server model leaves alone: it
\* takes each pool call as one step
taskVars == << poolVars, procVars, callVars, histVars, ret >>

\* the lookup with the bug of one key for every client
PoolKeyShared(name) == ""

\* the name a request looks its pool up by: &client.name
PoolKey(name) == name

\* ClientJobPool::from_request: job_pools.has_pool(&client.name), after the
\* Client guard gave the Common Name of the certificate
HasPool(r, name) ==
    /\ req[r].pc = "idle"
    /\ req' = [req EXCEPT ![r] = [NoReq EXCEPT !.pc = "has", !.name = name,
                   !.has = PoolKey(name) \in DOMAIN pools]]
    /\ resp' = NoResp
    /\ UNCHANGED << taskVars, pools, pool, owned >>

\* ClientJobPool::from_request: job_pools.get_pool(&client.name).unwrap();
\* entries are never removed, so the entry seen by has_pool is there
GetPool(r) ==
    /\ req[r].pc = "has"
    /\ req[r].has
    /\ req' = [req EXCEPT ![r].pc = "ready",
                          ![r].job_pool = pools[PoolKey(req[r].name)]]
    /\ resp' = NoResp
    /\ UNCHANGED << taskVars, pools, pool, owned >>

\* create_pool with the bug of inserting a new pool whatever the registry
\* holds for the name
CreateReplacing(name) ==
    [pool |-> Append(pool, NewPool),
     pools |-> MapInsert(pools, name, Len(pool) + 1),
     job_pool |-> Len(pool) + 1]

\* JobPools::create_pool: under the writer lock, the pool of the name if
\* there is one, else a new empty pool that is inserted; the handle of it
Create(name) ==
    IF name \in DOMAIN pools
    THEN [pool |-> pool, pools |-> pools, job_pool |-> pools[name]]
    ELSE [pool |-> Append(pool, NewPool),
          pools |-> MapInsert(pools, name, Len(pool) + 1),
          job_pool |-> Len(pool) + 1]

\* ClientJobPool::from_request: job_pools.create_pool(&client.name)
CreatePool(r) ==
    /\ req[r].pc = "has"
    /\ ~req[r].has
    /\ LET made == Create(PoolKey(req[r].name)) IN
       /\ pool' = made.pool
       /\ pools' = made.pools
       /\ req' = [req EXCEPT ![r].pc = "ready", ![r].job_pool = made.job_pool]
    /\ resp' = NoResp
    /\ UNCHANGED << taskVars, owned >>

\* a handler answers: the request is over
Answer(r, op, id, val) ==
    /\ resp' = [request |-> r, name |-> req[r].name, op |-> op, id |-> id,
                val |-> val, job_pool |-> req[r].job_pool]
    /\ req' = [req EXCEPT ![r] = NoReq]

\* Command::spawn in the server model: it fails for the program that does
\* not exist and succeeds for the other
Spawns(command) == command # "abcdfg"

\* start_job: client_job_pool.job_pool.submit(command, &args)
StartJob(r, spec) ==
    /\ req[r].pc = "ready"
    /\ LET o == req[r].job_pool
           id == pool[o].next_job_id
       IN
       /\ id < MaxJobs
       /\ pool' = [pool EXCEPT
              ![o].next_job_id = FetchAdd(id),
              ![o].jobs = MapInsert(@, id, NewJob(id, spec, Spawns(spec.command)))]
       /\ owned' = [owned EXCEPT ![req[r].name] = MapInsert(@, id, spec)]
       /\ Answer(r, "submit", id, id)
    /\ UNCHANGED << taskVars, pools >>

\* get_jobs: client_job_pool.job_pool.list()
GetJobs(r) ==
    /\ req[r].pc = "ready"
    /\ Answer(r, "list", 0, ListResult(pool[req[r].job_pool].jobs))
    /\ UNCHANGED << taskVars, pools, pool, owned >>

\* get_status: client_job_pool.job_pool.status(id), for a job whose child
\* keeps running
GetStatus(r, id) ==
    /\ req[r].pc = "ready"
    /\ LET m == pool[req[r].job_pool].jobs IN
       Answer(r, "status", id,
              IF id \in DOMAIN m THEN Some(JobStatusFrom(m[id].state)) ELSE None)
    /\ UNCHANGED << taskVars, pools, pool, owned >>

\* get_output: client_job_pool.job_pool.output(id), likewise
GetOutput(r, id) ==
    /\ req[r].pc = "ready"
    /\ LET m == pool[req[r].job_pool].jobs IN
       Answer(r, "output", id,
              IF id \in DOMAIN m THEN Some(m[id].output) ELSE None)
    /\ UNCHANGED << taskVars, pools, pool, owned >>

\* delete_job: client_job_pool.job_pool.delete(id); a Running job is killed
\* and finished with what process.wait() gives
DeleteJob(r, id) ==
    /\ req[r].pc = "ready"
    /\ LET o == req[r].job_pool
           m == pool[o].jobs
       IN
       IF id \notin DOMAIN m
       THEN /\ Answer(r, "delete", id, None)
            /\ UNCHANGED << pool, owned >>
       ELSE /\ pool' = [pool EXCEPT ![o].jobs = MapRemove(@, id)]
            /\ owned' = [owned EXCEPT ![req[r].name] =
                            [x \in DOMAIN @ \ {id} |-> @[x]]]
            /\ IF m[id].state.tag = "Running"
               THEN \E res \in WaitResults("killed") :
                        Answer(r, "delete", id, DeleteResult(FinishState(res)))
               ELSE Answer(r, "delete", id, None)
    /\ UNCHANGED << taskVars, pools >>

ServerNext ==
    \/ \E r \in Requests, name \in Principals : HasPool(r, name)
    \/ \E r \in Requests : GetPool(r)
    \/ \E r \in Requests : CreatePool(r)
    \/ \E r \in Requests, spec \in JobSpecs : StartJob(r, spec)
    \/ \E r \in Requests : GetJobs(r)
    \/ \E r \in Requests, id \in JobIds : GetStatus(r, id)
    \/ \E r \in Requests, id \in JobIds : GetOutput(r, id)
    \/ \E r \in Requests, id \in JobIds : DeleteJob(r, id)

\* the server with its registry; a call into a pool is one step
ServerSpec == Init /\ [][ServerNext]_vars

\* Result<(), status::Custom<String>> of the delete handler
ResOk == [ok |-> TRUE, err |-> ""]
ResErr(msg) == [ok |-> FALSE, err |-> msg]

\* the value of job_pool.delete(id).await (an Option<String>, job_pool.rs)
\* under the patterns of the handler's match: the Option layer is the same,
\* the String of a Some is the error message
DeleteMatched(v) == IF v = None THEN None ELSE Some(ResErr(v[1]))

\* the HTTP response Rocket builds from what a handler returns: None is
\* 404 Not Found, Some(Ok(())) is 200, Some(Err(Custom(status, body))) is
\* that status with that body
Respond(r) ==
    IF r = None THEN [status |-> 404, body |-> ""]
    ELSE IF r[1].ok THEN [status |-> 200, body |-> ""]
    ELSE [status |-> 500, body |-> r[1].err]

\* delete_job: the match on the pool's answer
delete_job(v) ==
    LET m == DeleteMatched(v) IN
    Respond(IF m = None THEN None
            ELSE IF m[1].ok THEN Some(ResOk)
            ELSE Some(ResErr(m[1].err)))

\* C11: DELETE /jobs/{id} answers 200 when the job was in the pool and was
\* removed without error, 404 when the id was not in the pool, and 500 with
\* the message when the advance of the job ended in Error.
C11_DeleteEndpointOutcomes ==
    ret.op = "delete" =>
        LET answer == delete_job(ret.val)
            failed == ret.obs.was_running /\ ret.job[1].state.tag = "Error"
        IN
        /\ ~ret.obs.present => answer.status = 404
        /\ (ret.obs.present /\ ~failed) => answer.status = 200
        /\ (ret.obs.present /\ failed) =>
               answer.status = 500 /\ answer.body = ret.val[1]

\* C12: every execution of concurrent calls has the results of some
\* sequential execution of the same calls. In a sequential execution the
\* submits return 0, 1, 2, ... in the order they run and each has inserted
\* its job when the next call starts, so ids enter the map in increasing
\* order: a list result that holds an id also holds every smaller id that no
\* delete has removed.
C12_ResultsOfSomeSerialOrder ==
    ret.op = "list" =>
        \A id \in DOMAIN ret.val :
            \A smaller \in 0 .. (id - 1) :
                smaller \in DOMAIN ret.val \/ smaller \in deleted

\* C13: from the return of submit until a delete of the id, a list call
\* returns the id with the submitted spec: whenever the lock is free (a list
\* can run) the job is in the map with that spec, also between the remove
\* and the reinsert of a status or output call, which hold the lock.
C13_ListSeesSubmittedJob ==
    /\ lock = "free" =>
           \A id \in DOMAIN expected :
               id \in DOMAIN jobs /\ jobs[id].spec = expected[id]
    /\ ret.op = "list" =>
           \A id \in DOMAIN expected :
               id \in DOMAIN ret.val /\ ret.val[id] = expected[id]

\* list returned a Running job that status or output calls had removed and
\* reinserted, appending a line
C13_Witness ==
    /\ ret.op = "list"
    /\ \E id \in DOMAIN ret.val :
           /\ jobs[id].state.tag = "Running"
           /\ jobs[id].output # NewOutput

\* C14: the registry holds one pool per principal, also when the first
\* requests of a principal race: as many pools were constructed as the
\* registry has names, every request that got a handle holds the pool the
\* registry has for its principal, and a list through any handle returns
\* the jobs the principal's requests submitted and did not delete.
C14_OnePoolPerPrincipal ==
    /\ Len(pool) = Cardinality(DOMAIN pools)
    /\ \A r \in Requests : req[r].pc = "ready" =>
           /\ req[r].name \in DOMAIN pools
           /\ req[r].job_pool = pools[req[r].name]
    /\ resp.op = "list" => resp.val = owned[resp.name]

\* a request that had found no pool went through create_pool after another
\* request of the same principal had created the pool and submitted a job
C14_Witness ==
    \E r \in Requests :
        /\ req[r].pc = "ready"
        /\ ~req[r].has
        /\ owned[req[r].name] # EmptyMap
        /\ DOMAIN pool[req[r].job_pool].jobs = DOMAIN owned[req[r].name]

\* the principal of the request that takes the step
Actor(r) == IF req[r].name # "" THEN req[r].name ELSE req'[r].name

\* C15: a step of a request of principal A (its guards and its submit,
\* list, status, output or delete) leaves the registry entry and the pool
\* (job map, job states, outputs, id counter) of every other principal
\* unchanged, no two principals share a pool, and a list for A returns only
\* jobs that A's requests submitted, with their specs, also for ids that
\* another principal's pool uses too.
C15_Step ==
    /\ \A a, b \in DOMAIN pools : a # b => pools[a] # pools[b]
    /\ \A r \in Requests : req'[r] # req[r] =>
           \A b \in (DOMAIN pools) \ {Actor(r)} :
               /\ b \in DOMAIN pools'
               /\ pools'[b] = pools[b]
               /\ pool'[pools[b]] = pool[pools[b]]
    /\ resp'.op = "list" =>
           \A id \in DOMAIN resp'.val :
               /\ id \in DOMAIN owned[resp'.name]
               /\ resp'.val[id] = owned[resp'.name][id]

C15_PrincipalsAreIsolated == [][C15_Step]_vars

\* a list for one principal returned an id that another principal's pool
\* holds too, with another spec
C15_Witness ==
    /\ resp.op = "list"
    /\ \E id \in DOMAIN resp.val : \E b \in Principals \ {resp.name} :
           /\ id \in DOMAIN owned[b]
           /\ owned[b][id] # resp.val[id]

\* C16: a list call changes nothing: the map and every job in it (state,
\* output) are the same after it, and so are the line channels, the exit
\* channels, the kill channels and the tasks of every child.
C16_Step ==
    ret'.op = "list" =>
        /\ jobs' = jobs
        /\ chan' = chan
        /\ exit_chan' = exit_chan
        /\ kill_sent' = kill_sent
        /\ UNCHANGED << child, mpc, rpc, emitted, next_job_id >>

C16_ListChangesNothing == [][C16_Step]_vars

\* list returned while a job was Running with its exit result published
\* and a line waiting in a channel: the job is still Running, the line and
\* the exit result are still there
C16_Witness ==
    /\ ret.op = "list"
    /\ \E id \in DOMAIN jobs :
           /\ id \in DOMAIN ret.val
           /\ jobs[id].state.tag = "Running"
           /\ exit_chan[id] # None
           /\ \E s \in Streams : chan[id][s] # <<>>

\* C17: a status, output or delete call on an id the pool does not have
\* (never submitted, or deleted) returns None and leaves the map, every job
\* and every channel as they were.
C17_Step ==
    (ret'.op \in {"status", "output", "delete"} /\ ~Known(ret'.id)) =>
        /\ ret'.val = None
        /\ jobs' = jobs
        /\ UNCHANGED << next_job_id, chan, exit_chan, kill_sent, child, mpc, rpc >>

C17_AbsentIdChangesNothing == [][C17_Step]_vars

\* delete of an id that was deleted before returned None while the pool
\* holds another job
C17_Witness ==
    /\ ret.op = "delete"
    /\ ret.obs.was_deleted
    /\ ret.val = None
    /\ jobs # EmptyMap

\* the lines of a stream the pool has received so far: those in the job's
\* output, then those a call in progress has taken and not yet appended
Received(id, s) ==
    IF ~Known(id) THEN <<>>
    ELSE LET got == JobOf(id).output
             taking == {c \in Callers : call[c].id = id /\ call[c].job # None
                            /\ call[c].op \in {"status", "output", "delete"}}
             extra == IF taking = {} THEN NewOutput
                      ELSE LET c == CHOOSE x \in taking : TRUE IN
                           [stdout_lines |-> call[c].stdout_lines,
                            stderr_lines |-> call[c].stderr_lines]
         IN IF s = "stdout" THEN got.stdout_lines \o extra.stdout_lines
            ELSE got.stderr_lines \o extra.stderr_lines

ManagerEnded(j) == mpc[j] = "done"

\* C19: the manager task sends an exit value exactly once, in the step in
\* which it ends, on every branch of its select!; so a delete that awaits the
\* exit channel never finds the sender dropped without a value (the panic
\* of the kill path is not reached).
C19_Step ==
    /\ \A j \in JobIds :
           /\ (~ManagerEnded(j) /\ ManagerEnded(j)') =>
                  exit_chan[j] = None /\ exit_chan'[j] # None
           /\ (exit_chan[j] = None /\ exit_chan'[j] # None) =>
                  ~ManagerEnded(j) /\ ManagerEnded(j)'
    /\ \A c \in Callers : pc'[c] = "await_exit" =>
           ~(mpc'[call'[c].id] = "done" /\ exit_chan'[call'[c].id] = None)

C19_ManagerAlwaysSendsExit == [][C19_Step]_vars

\* a delete that had to wait for the exit value got it from a manager whose
\* child was not ended by the kill (it ended by itself, before the signal
\* or after a kill that failed)
C19_Witness ==
    /\ ret.op = "delete"
    /\ ret.obs.was_running
    /\ ~ret.obs.published
    /\ child[ret.id] = "exited"

\* C20: a status or output call never waits for the child, a reader or the
\* manager: wherever the call is inside update_job_state(job, false), in
\* the try_recv loops or in the drain of finish_job, its next step can be
\* taken at once.
C20_ReadNeverWaits ==
    \A c \in Callers : call[c].op \in {"status", "output"} =>
        /\ pc[c] \in {"recv_stdout", "recv_stderr"} => ENABLED RecvUntil(c)
        /\ pc[c] \in {"finish_stdout", "finish_stderr"} => ENABLED FinishRecv(c)

\* an output call found the exit result and its drain of the closed stdout
\* channel gave a line
C20_Witness ==
    \E c \in Callers :
        /\ call[c].op = "output"
        /\ pc[c] = "finish_stderr"
        /\ call[c].stdout_lines # <<>>

\* --------------------------------------------------- fair scheduling
\* the callers of the pool whose calls are followed to their end
LiveCallers == {"c1"}

LiveNext ==
    \/ \E c \in LiveCallers, spec \in JobSpecs : SubmitSpawn(c, spec)
    \/ \E c \in LiveCallers : SubmitInsert(c)
    \/ \E c \in LiveCallers : List(c)
    \/ \E c \in LiveCallers, op \in {"status", "output"}, id \in JobIds :
           Read(c, op, id)
    \/ \E c \in LiveCallers : RecvUntil(c)
    \/ \E c \in LiveCallers : FinishRecv(c)
    \/ \E c \in LiveCallers, id \in JobIds : Delete(c, id)
    \/ \E c \in LiveCallers : AwaitExit(c)
    \/ \E j \in JobIds : ChildExit(j)
    \/ \E j \in JobIds, s \in Streams : ReaderLine(j, s)
    \/ \E j \in JobIds, s \in Streams : ReaderEof(j, s)
    \/ \E j \in JobIds : ManagerProcessExited(j)
    \/ \E j \in JobIds : ManagerKillReceived(j)
    \/ \E j \in JobIds : ManagerSendExit(j)

\* The tokio runtime polls every task that is ready: a step of a pool call,
\* of a manager task or of a reader task that stays possible is taken. Of
\* the environment it is assumed that a pipe reaches end-of-file and that a
\* child the manager has tried to kill ends; a child that nobody kills may
\* run forever.
Fairness ==
    /\ \A c \in LiveCallers :
           /\ WF_vars(RecvUntil(c))
           /\ WF_vars(FinishRecv(c))
           /\ WF_vars(AwaitExit(c))
    /\ \A j \in JobIds :
           /\ WF_vars(ManagerProcessExited(j))
           /\ WF_vars(ManagerKillReceived(j))
           /\ WF_vars(ManagerSendExit(j))
           /\ WF_vars(mpc[j] = "joining" /\ ChildExit(j))
           /\ \A s \in Streams : WF_vars(ReaderEof(j, s))

\* the pool with the calls of one caller after the other, under fair
\* scheduling: a call that waits holds the lock, so the calls of other
\* callers cannot help or hinder it
FairSpec == Init /\ [][LiveNext]_vars /\ Fairness

\* C21: a delete that found its job Running and waits for the exit value
\* gets it and returns, releasing the lock; the exit value it gets is the one
\* the manager sent after its select! ended and both readers were joined.
C21_DeleteReturns ==
    /\ \A c \in LiveCallers :
           (pc[c] = "await_exit") ~> (pc[c] = "idle" /\ lock # c)
    /\ [](\A c \in Callers : pc[c] = "await_exit" =>
              /\ lock = c
              /\ ExitReady(call[c].id) =>
                     ManagerEnded(call[c].id) /\ StreamsJoined(call[c].id))

\* a delete waits for the exit value while the manager, which got the kill
\* signal, waits for the readers
C21_Witness ==
    \E c \in Callers :
        /\ pc[c] = "await_exit"
        /\ mpc[call[c].id] = "joining"
        /\ child[call[c].id] = "killed"
        /\ ~StreamsJoined(call[c].id)

\* ------------------------------ read_to_end, statement by statement
\* In Spec a turn of the reader's loop is one step, every read gives a line
\* or end-of-file, and the receiver outlives the reader. Here the read and
\* the send are steps of their own, a read can fail, and the pool can be
\* dropped while the child runs.
\* what reader.read_line(&mut buf).await gives: Ok(n) with a line, Ok(0),
\* Err of kind InvalidData, Err of another kind
ReadResults == {"line", "eof", "invalid_data", "io_error"}

\* the reader is between the match on the read result and the send
Sending == ReadResults \ {"eof"}

\* buf after the match with the bug of not pushing the marker
BufUnmarked(s, k, result) == IF result = "line" THEN LineText(s, k) ELSE ""

\* buf after the match: the line read, the marker pushed for invalid UTF-8,
\* or what the failed read left in the fresh String (nothing)
BufAfter(s, k, result) ==
    CASE result = "line" -> LineText(s, k)
      [] result = "invalid_data" -> "###INVALID UTF8###"
      [] result = "io_error" -> ""

\* the position after the match: Ok(0) breaks the loop and the task ends;
\* Ok(_) falls through, InvalidData pushes the marker and falls through, any
\* other error is logged and falls through, each to the send
AfterRead(result) == IF result = "eof" THEN "done" ELSE result

\* one reader.read_line(&mut buf).await and the match on its result
ReaderRead(j, s) ==
    /\ UNCHANGED serverVars
    /\ rpc[j][s] = "reading"
    /\ \E result \in ReadResults :
           /\ result # "eof" => Written(j) <= MaxLines
           /\ rpc' = [rpc EXCEPT ![j][s] = AfterRead(result)]
    /\ UNCHANGED << poolVars, child, mpc, chan, exit_chan, kill_sent, emitted,
                    callVars, histVars >>
    /\ ret' = NoRet

\* the UnboundedReceiver of a stream lives in the Running state of the job
ReceiverAlive(j) ==
    \/ j \in DOMAIN jobs /\ jobs[j].state.tag = "Running"
    \/ \E c \in Callers :
           /\ call[c].job # None
           /\ call[c].id = j
           /\ call[c].job[1].state.tag = "Running"

\* the position after lines_sender.send(..): an error is logged and the
\* loop goes on with the next read
AfterSend(sent) == "reading"

\* lines_sender.send((buf, Instant::now())): it fails when the receiver
\* was dropped
ReaderSend(j, s) ==
    /\ UNCHANGED serverVars
    /\ rpc[j][s] \in Sending
    /\ LET line == BufAfter(s, Len(emitted[j][s]) + 1, rpc[j][s])
           sent == ReceiverAlive(j)
       IN
       /\ IF sent
          THEN \E t \in ClockReadings(chan[j][s]) :
                   /\ chan' = [chan EXCEPT ![j][s] =
                                   Append(@, [line |-> line, ts |-> t])]
                   /\ emitted' = [emitted EXCEPT ![j][s] = Append(@, line)]
          ELSE UNCHANGED << chan, emitted >>
       /\ rpc' = [rpc EXCEPT ![j][s] = AfterSend(sent)]
    /\ UNCHANGED << poolVars, child, mpc, exit_chan, kill_sent, callVars,
                    histVars >>
    /\ ret' = NoRet

\* the JobPool is dropped while no call borrows it: its jobs are dropped,
\* with them the receivers and the kill senders, which wakes the kill arm
\* of each manager's select! like a signal does
DropPool ==
    /\ UNCHANGED serverVars
    /\ lock = "free"
    /\ \A c \in Callers : pc[c] = "idle"
    /\ jobs # EmptyMap
    /\ jobs' = EmptyMap
    /\ lock' = "dropped"
    /\ kill_sent' = [j \in JobIds |->
           \/ kill_sent[j]
           \/ j \in DOMAIN jobs /\ jobs[j].state.tag = "Running"
                /\ mpc[j] = "select"]
    /\ UNCHANGED << next_job_id, child, mpc, rpc, chan, exit_chan, emitted,
                    callVars, histVars >>
    /\ ret' = NoRet

ReaderNext ==
    \/ \E c \in Callers, spec \in JobSpecs :
           lock # "dropped" /\ SubmitSpawn(c, spec)
    \/ \E c \in Callers : SubmitInsert(c)
    \/ DropPool
    \/ \E j \in JobIds : ChildExit(j)
    \/ \E j \in JobIds, s \in Streams : ReaderRead(j, s)
    \/ \E j \in JobIds, s \in Streams : ReaderSend(j, s)
    \/ \E j \in JobIds : ManagerProcessExited(j)
    \/ \E j \in JobIds : ManagerKillReceived(j)
    \/ \E j \in JobIds : ManagerSendExit(j)

\* a submitted child, its manager and its readers, with failing reads and
\* with a pool that can be dropped
ReaderSpec == Init /\ [][ReaderNext]_vars

\* C22: after a read failed with an error other than invalid UTF-8 the
\* reader sends nothing more and its next position is the end of its task.
C22_Step ==
    \A j \in JobIds, s \in Streams :
        rpc[j][s] = "io_error" =>
            /\ rpc'[j][s] \in {"io_error", "done"}
            /\ emitted'[j][s] = emitted[j][s]
            /\ chan'[j][s] = chan[j][s]

C22_ReadErrorStopsReader == [][C22_Step]_vars

\* C23: after a send failed because the receiver was dropped the reader
\* does not read again: its next position is the end of its task.
C23_Step ==
    \A j \in JobIds, s \in Streams :
        (rpc[j][s] \in Sending /\ ~ReceiverAlive(j)) =>
            rpc'[j][s] \in {rpc[j][s], "done"}

C23_SendFailureStopsReader == [][C23_Step]_vars

\* C24: a delete of a job that is still recorded as Running although its
\* manager has sent the exit value and ended: the kill signal is not
\* delivered and nothing else happens for it, the call goes on to the exit
\* channel, where the value waits, and to the closed line channels, so each
\* of its steps can be taken at once; it returns None for Completed and
\* Terminated and the error message for Error, and the job is gone.
C24_DeleteAfterManagerEnded ==
    /\ \A c \in Callers : (call[c].op = "delete" /\ call[c].published) =>
           /\ ~kill_sent[call[c].id]
           /\ pc[c] \in {"await_exit", "finish_stdout", "finish_stderr"}
           /\ pc[c] = "await_exit" => ENABLED AwaitExit(c)
           /\ pc[c] # "await_exit" => ENABLED FinishRecv(c)
    /\ (ret.op = "delete" /\ ret.obs.was_running /\ ret.obs.published) =>
           /\ ret.id \notin DOMAIN jobs
           /\ IsTerminal(ret.job[1].state)
           /\ ret.job[1].state.tag \in {"Completed", "Terminated"} =>
                  ret.val = None
           /\ ret.job[1].state.tag = "Error" =>
                  ret.val = Some(DeleteErrorPrefix \o ret.job[1].state.msg)

\* such a delete returned None for a child that had ended by itself with an
\* exit code
C24_Witness ==
    /\ ret.op = "delete"
    /\ ret.obs.was_running
    /\ ret.obs.published
    /\ child[ret.id] = "exited"
    /\ ret.job[1].state.tag = "Completed"
    /\ ret.val = None

\* the callers whose status, output or delete call holds the job of an id
\* outside the map and advances it
Advancing(id) ==
    {c \in Callers : /\ call[c].op \in {"status", "output", "delete"}
                     /\ call[c].id = id
                     /\ call[c].job # None}

\* C25: whenever the lock is free, every job whose submit has returned and
\* that no delete has removed is in the map under its id; a job is outside
\* the map only while exactly one call holds it together with the lock; a
\* status or output call has put the job back under the id it was given
\* when it returns.
C25_WithdrawnJobsComeBack ==
    /\ lock = "free" =>
           /\ \A id \in DOMAIN expected :
                  id \in DOMAIN jobs /\ jobs[id].id = id
           /\ \A id \in JobIds : Advancing(id) = {}
    /\ \A id \in JobIds :
           /\ Cardinality(Advancing(id)) <= 1
           /\ \A c \in Advancing(id) : lock = c /\ id \notin DOMAIN jobs
    /\ (ret.op \in {"status", "output"} /\ ret.obs.present) =>
           /\ lock = "free"
           /\ ret.id \in DOMAIN jobs
           /\ jobs[ret.id] = ret.job[1]
           /\ jobs[ret.id].id = ret.id

\* a status call that drained a line put a Running job back while the
\* other caller is between the spawn and the insert of a submit
C25_Witness ==
    /\ ret.op = "status"
    /\ ret.obs.was_running
    /\ ret.id \in DOMAIN jobs
    /\ jobs[ret.id].state.tag = "Running"
    /\ jobs[ret.id].output # NewOutput
    /\ \E c \in Callers : pc[c] = "insert"

\* C26: the steps of one submit are one critical section: while a submit
\* is between the allocation of its id (with the spawn of the child and the
\* launch of the manager) and the insertion of its job, no other call on
\* the pool runs, so none returns.
C26_SubmitIsOneCriticalSection ==
    \A c \in Callers : pc[c] = "insert" => ret.caller = "none"

\* ------------------------------------------ receive_lines_until by itself
Stamps == 0 .. MaxStamp

\* what a channel can hold: the k-th line of the stream with the reading of
\* Instant::now() taken when it was sent; the one sender of a channel reads
\* a monotonic clock, so the readings do not decrease
Queues ==
    UNION { { [i \in 1 .. n |-> [line |-> LineText("stdout", i), ts |-> f[i]]] :
                f \in { g \in [1 .. n -> Stamps] :
                            \A i \in 1 .. n : \A j \in i .. n : g[i] <= g[j] } } :
            n \in 0 .. MaxQueue }

\* a status call on job 0, Running, that holds the lock and the job, has
\* found no exit value and read the clock, with any channel content, while
\* the stdout reader is still at work or has ended
DrainInit ==
    /\ ServerInit
    /\ next_job_id = 1
    /\ jobs = EmptyMap
    /\ lock = "c1"
    /\ child = [j \in JobIds |-> IF j = 0 THEN "alive" ELSE "none"]
    /\ mpc = [j \in JobIds |-> IF j = 0 THEN "select" ELSE "none"]
    /\ \E r \in {"reading", "done"} :
           rpc = [j \in JobIds |-> [s \in Streams |->
                     IF j # 0 THEN "none" ELSE IF s = "stdout" THEN r
                     ELSE "reading"]]
    /\ \E q \in Queues :
           /\ chan = [j \in JobIds |-> [s \in Streams |->
                         IF j = 0 /\ s = "stdout" THEN q ELSE <<>>]]
           /\ emitted = [j \in JobIds |-> [s \in Streams |->
                            IF j = 0 /\ s = "stdout" THEN Lines(q) ELSE <<>>]]
    /\ exit_chan = [j \in JobIds |-> None]
    /\ kill_sent = [j \in JobIds |-> FALSE]
    /\ pc = [c \in Callers |-> IF c = "c1" THEN "recv_stdout" ELSE "idle"]
    /\ \E now \in Stamps, spec \in {x \in JobSpecs : Spawns(x.command)} :
           /\ call = [c \in Callers |->
                         IF c = "c1"
                         THEN [NoCall EXCEPT !.op = "status", !.id = 0,
                                  !.job = Some(NewJob(0, spec, TRUE)),
                                  !.until = now]
                         ELSE NoCall]
           /\ expected = [x \in {0} |-> spec]
    /\ ret = NoRet
    /\ deleted = {}

\* let stdout_lines = receive_lines_until(&mut stdout_rx, &now).await
Drain(c) ==
    /\ UNCHANGED serverVars
    /\ pc[c] = "recv_stdout"
    /\ LET k == call[c]
           r == receive_lines_until(chan[k.id]["stdout"], k.until)
       IN
       /\ call' = [call EXCEPT ![c].stdout_lines = r.lines]
       /\ chan' = [chan EXCEPT ![k.id]["stdout"] = r.rest]
    /\ pc' = [pc EXCEPT ![c] = "recv_stderr"]
    /\ ret' = NoRet
    /\ UNCHANGED << poolVars, child, mpc, rpc, exit_chan, kill_sent, emitted,
                    histVars >>

DrainNext == \E c \in LiveCallers : Drain(c)

DrainSpec == DrainInit /\ [][DrainNext]_vars

\* the number of pairs at the front of q with a timestamp not after until
LeadingRun(q, until) ==
    CHOOSE n \in 0 .. Len(q) :
        /\ \A i \in 1 .. n : q[i].ts <= until
        /\ n < Len(q) => q[n + 1].ts > until

\* C27: a drain-until(T) of a channel returns the lines of the longest
\* leading run of pairs with timestamp <= T and of the one pair after the
\* run, if there is one, in arrival order; the channel keeps the pairs
\* behind that one, in their order; an empty channel gives no line; and the
\* drain can run whether or not the sender still lives.
C27_Step ==
    \A c \in LiveCallers :
        (pc[c] = "recv_stdout" /\ pc'[c] = "recv_stderr") =>
            LET q == chan[call[c].id]["stdout"]
                run == LeadingRun(q, call[c].until)
                taken == IF run < Len(q) THEN run + 1 ELSE run
            IN
            /\ call'[c].stdout_lines = Lines(SubSeq(q, 1, taken))
            /\ chan'[call[c].id]["stdout"] = SubSeq(q, taken + 1, Len(q))
            /\ q = <<>> => call'[c].stdout_lines = <<>>

C27_DrainUntil ==
    /\ [][C27_Step]_vars
    /\ [](\A c \in LiveCallers : pc[c] = "recv_stdout" => ENABLED Drain(c))

\* a drain returned two lines, the second stamped after T, and left a
\* third in the channel
C27_Witness ==
    \E c \in LiveCallers :
        /\ pc[c] = "recv_stderr"
        /\ Len(call[c].stdout_lines) = 2
        /\ Len(chan[call[c].id]["stdout"]) = 1
        /\ chan[call[c].id]["stdout"][1].ts > call[c].until

\* ------------------------------------------- a child that keeps writing
\* read_to_end for a child that writes without end (like yes): the reader
\* sends line after line. Of the lines stamped not after the <until> of the
\* running call there are at most MaxLines (the clock moves on), of the
\* lines stamped after it there is no end; the model follows a channel up
\* to MaxLines + 1 waiting pairs.
ReaderBusy(j, s) ==
    /\ UNCHANGED serverVars
    /\ rpc[j][s] = "reading"
    /\ Len(chan[j][s]) <= MaxLines
    /\ \E t \in ClockReadings(chan[j][s]) :
           LET line == LineText(s, Len(emitted[j][s]) + 1) IN
           /\ t = 0 => Written(j) < MaxLines
           /\ chan' = [chan EXCEPT ![j][s] = Append(@, [line |-> line, ts |-> t])]
           /\ emitted' = [emitted EXCEPT ![j][s] = Append(@, line)]
    /\ UNCHANGED << poolVars, child, mpc, rpc, exit_chan, kill_sent, callVars,
                    histVars >>
    /\ ret' = NoRet

\* the jobs are those of a program that exists; the status and output
\* calls that start while the child has written at most MaxLines lines are
\* followed
BusyNext ==
    \/ \E c \in LiveCallers, spec \in {x \in JobSpecs : Spawns(x.command)} :
           SubmitSpawn(c, spec)
    \/ \E c \in LiveCallers : SubmitInsert(c)
    \/ \E c \in LiveCallers, op \in {"status", "output"}, id \in JobIds :
           Written(id) <= MaxLines /\ Read(c, op, id)
    \/ \E c \in LiveCallers : RecvUntil(c)
    \/ \E c \in LiveCallers : FinishRecv(c)
    \/ \E j \in JobIds : ChildExit(j)
    \/ \E j \in JobIds, s \in Streams : ReaderBusy(j, s)
    \/ \E j \in JobIds, s \in Streams : ReaderEof(j, s)
    \/ \E j \in JobIds : ManagerProcessExited(j)
    \/ \E j \in JobIds : ManagerSendExit(j)

\* the loops of a call run on (they have no await that suspends them); of
\* the child, the readers and the manager nothing is assumed
BusyFairness ==
    \A c \in LiveCallers : WF_vars(RecvUntil(c)) /\ WF_vars(FinishRecv(c))

BusySpec == Init /\ [][BusyNext]_vars /\ BusyFairness

\* a turn of a receive_lines_until loop that takes a pair stamped after
\* <until> is the last turn of that loop
C28_Step ==
    \A c \in LiveCallers :
        pc[c] \in {"recv_stdout", "recv_stderr"} =>
            LET q == chan[call[c].id][StreamOf(pc[c])] IN
            (/\ q # <<>>
             /\ chan'[call[c].id][StreamOf(pc[c])] = Tail(q)
             /\ Head(q).ts > call[c].until) => pc'[c] # pc[c]

\* C28: a status or output call comes to its end although the readers send
\* lines without end while it drains: a loop ends with the first pair
\* stamped after T, so a call takes from each channel no more than the
\* lines stamped up to T and one more.
C28_BusyChildCannotHoldCall ==
    /\ \A c \in LiveCallers :
           (call[c].op \in {"status", "output"}) ~> (call[c].op = "none")
    /\ [][C28_Step]_vars
    /\ [](\A c \in LiveCallers :
              /\ Len(call[c].stdout_lines) <= MaxLines + 1
              /\ Len(call[c].stderr_lines) <= MaxLines + 1)

\* a status call returned with one line, stamped after T, while the reader
\* had filled the channel again behind it
C28_Witness ==
    /\ ret.op = "status"
    /\ ret.obs.was_running
    /\ ret.val = Some(StatusRunning)
    /\ Len(ret.job[1].output.stdout_lines) = 1
    /\ rpc[ret.id]["stdout"] = "reading"
    /\ Len(chan[ret.id]["stdout"]) >= 2

\* the lines of a stream a job has in its output
OutputLines(job, s) ==
    IF s = "stdout" THEN job.output.stdout_lines ELSE job.output.stderr_lines

\* C29: for every job of the pool and each stream, the lines of the job's
\* output are a prefix of the lines the reader sent, in the order sent; the
\* lines after that prefix are the ones a call in progress has taken and
\* the ones waiting in the channel, in that order: none is skipped, taken
\* twice or out of its place.
C29_OutputIsPrefixOfEmitted ==
    \A id \in JobIds : Known(id) =>
        \A s \in Streams :
            /\ IsPrefix(OutputLines(JobOf(id), s), emitted[id][s])
            /\ Received(id, s) \o Lines(chan[id][s]) = emitted[id][s]

\* a Running job has the first two lines of its stdout, which two status
\* or output calls collected one by one, while a third line waits in the
\* channel
C29_Witness ==
    /\ ret.op \in {"status", "output"}
    /\ ret.obs.was_running
    /\ ret.id \in DOMAIN jobs
    /\ jobs[ret.id].state.tag = "Running"
    /\ Len(emitted[ret.id]["stdout"]) = 3
    /\ Len(chan[ret.id]["stdout"]) = 1
    /\ ret.obs.job[1].output.stdout_lines = SubSeq(emitted[ret.id]["stdout"], 1, 1)
    /\ jobs[ret.id].output.stdout_lines = SubSeq(emitted[ret.id]["stdout"], 1, 2)

\* C30: when a call finishes a job, the state the job gets follows from
\* the exit result the call received and from nothing else: Completed with
\* the code for a result with a code, Terminated for a result without one,
\* Error with the message of the I/O error for a failed wait; this is so for
\* status and output (no kill) and for delete (kill), and a status call
\* returns that very state.
C30_Step ==
    \A c \in Callers :
        (pc[c] = "finish_stderr" /\ pc'[c] = "idle") =>
            LET exit == call[c].exit[1]
                state == ret'.job[1].state
            IN
            /\ ret'.caller = c
            /\ (exit.ok /\ exit.code # None) =>
                   state = [tag |-> "Completed", exit_code |-> exit.code[1],
                            msg |-> ""]
            /\ (exit.ok /\ exit.code = None) => state.tag = "Terminated"
            /\ ~exit.ok =>
                   /\ state.tag = "Error"
                   /\ state.msg = "unexpected io error when waiting for job process "
                                      \o exit.err
            /\ ret'.op = "status" =>
                   /\ ret'.val # None
                   /\ StatusMatches(ret'.val[1], state)

C30_ExitResultDecidesState == [][C30_Step]_vars

\* a delete that sent the kill signal finished its job as Completed with
\* the exit code, because the child had ended by itself
C30_Witness ==
    /\ ret.op = "delete"
    /\ ret.obs.was_running
    /\ ~ret.obs.published
    /\ ret.job[1].state = Completed(1)

\* ------------------------------- the pool's calls against failing reads
\* submit, status and output on a pool whose readers run statement by
\* statement and whose reads can fail; the jobs are those of a program that
\* exists and writes to its stdout only
PipeNext ==
    \/ \E c \in LiveCallers, spec \in {x \in JobSpecs : Spawns(x.command)} :
           SubmitSpawn(c, spec)
    \/ \E c \in LiveCallers : SubmitInsert(c)
    \/ \E c \in LiveCallers, op \in {"status", "output"}, id \in JobIds :
           Read(c, op, id)
    \/ \E c \in LiveCallers : RecvUntil(c)
    \/ \E c \in LiveCallers : FinishRecv(c)
    \/ \E j \in JobIds : ChildExit(j)
    \/ \E j \in JobIds : ReaderRead(j, "stdout")
    \/ \E j \in JobIds : ReaderSend(j, "stdout")
    \/ \E j \in JobIds : ReaderEof(j, "stderr")
    \/ \E j \in JobIds : ManagerProcessExited(j)
    \/ \E j \in JobIds : ManagerSendExit(j)

PipeSpec == Init /\ [][PipeNext]_vars

Marker == "###INVALID UTF8###"

\* the step a reader takes after a read that failed with invalid UTF-8:
\* exactly one line, the marker, is sent on the reader's channel, the reader
\* is at its next read, and the job keeps its state; a job is finished in
\* the Error state only for an exit result that is an error
C31_Step ==
    /\ \A j \in JobIds, s \in Streams :
           (rpc[j][s] = "invalid_data" /\ rpc'[j][s] # "invalid_data") =>
               /\ rpc'[j][s] = "reading"
               /\ emitted'[j][s] = Append(emitted[j][s], Marker)
               /\ Lines(chan'[j][s]) = Append(Lines(chan[j][s]), Marker)
               /\ Known(j) => (Known(j)' /\ JobOf(j)'.state = JobOf(j).state)
    /\ \A c \in LiveCallers :
           (/\ pc[c] = "finish_stderr"
            /\ pc'[c] = "idle"
            /\ ret'.job[1].state.tag = "Error") => ~call[c].exit[1].ok

\* C31: a read that fails with invalid UTF-8 makes the reader send one line
\* with the marker and read on; the marker and the lines after it reach the
\* job's output in their order, and the job is not put into Error by it.
C31_InvalidUtf8IsMarkedLine ==
    /\ [][C31_Step]_vars
    /\ [](\A id \in JobIds : Known(id) =>
              \A s \in Streams :
                  Received(id, s) \o Lines(chan[id][s]) = emitted[id][s])

\* a job Completed whose stdout is the marker and then the line the child
\* wrote next
C31_Witness ==
    \E id \in DOMAIN jobs :
        /\ jobs[id].state.tag = "Completed"
        /\ jobs[id].output.stdout_lines = << Marker, LineText("stdout", 2) >>

\* C32: a delete of a job that is in a terminal state when the call removes
\* it (Completed, Terminated, or Error, also the Error of a failed spawn) is
\* one step: the job leaves the map, the other jobs stay, None is returned
\* and not the message of an Error state, and no kill signal is sent and no
\* channel, child or task is touched.
C32_Step ==
    (ret'.op = "delete" /\ ret'.obs.present /\ ~ret'.obs.was_running) =>
        /\ pc[ret'.caller] = "idle" /\ pc'[ret'.caller] = "idle"
        /\ lock = "free" /\ lock' = "free"
        /\ ret'.id \in DOMAIN jobs
        /\ ret'.obs.job = Some(jobs[ret'.id])
        /\ jobs' = [x \in DOMAIN jobs \ {ret'.id} |-> jobs[x]]
        /\ ret'.val = None
        /\ UNCHANGED << kill_sent, exit_chan, chan, child, mpc, rpc, emitted,
                        next_job_id >>

C32_DeleteOfTerminalJob == [][C32_Step]_vars

\* a delete of a job in Error because its spawn failed returned None, while
\* the pool has another job
C32_Witness ==
    /\ ret.op = "delete"
    /\ ret.obs.present
    /\ ret.obs.job[1].state = Error(SpawnErrorMsg)
    /\ ret.obs.job[1].pid = None
    /\ ret.val = None
    /\ jobs # EmptyMap

\* a step of the manager task of a child can be taken
ManagerCanStep(j) ==
    \/ ENABLED ManagerKillReceived(j)
    \/ ENABLED ManagerProcessExited(j)
    \/ ENABLED ManagerSendExit(j)

\* the manager is at its joins or at its last process.wait() and what it
\* waits for is the end-of-file of a pipe or the end of the child
ManagerWaitsForChild(j) ==
    /\ mpc[j] = "joining"
    /\ \/ \E s \in Streams : ENABLED ReaderEof(j, s)
       \/ ENABLED ChildExit(j)

\* C33: the lock is only ever held by a caller of the pool, never by a
\* manager or reader task, and a delete that holds the lock while it awaits
\* the exit value is never in a wait cycle, whatever the other caller does
\* or waits for: the exit value is there, or the manager can take a step
\* (the kill signal it waits for has been sent), or the manager waits for
\* the child and its pipes, not for the pool.
C33_NoWaitCycle ==
    /\ lock \in Callers \cup {"free"}
    /\ \A c \in Callers : pc[c] = "await_exit" =>
           /\ lock = c
           /\ \/ ENABLED AwaitExit(c)
              \/ ManagerCanStep(call[c].id)
              \/ ManagerWaitsForChild(call[c].id)

\* a delete holds the lock and awaits the exit value while the other
\* caller's submit waits for the lock and the manager has the kill signal
\* before it
C33_Witness ==
    \E c \in Callers, d \in Callers :
        /\ pc[c] = "await_exit"
        /\ pc[d] = "insert"
        /\ mpc[call[c].id] = "select"
        /\ kill_sent[call[c].id]
        /\ child[call[c].id] = "alive"

====
